---- MODULE Spec2Model ----
(***************************************************************************)
(* csvrow: a single-row CSV field tokenizer (CsvRow, an Iterator) and the  *)
(* value escaper (escape).  Text is modelled as a sequence of characters,  *)
(* each character a one-character string; byte offsets are computed from   *)
(* the UTF-8 width of every character, so that byte-indexed slicing of the *)
(* line is modelled as the code performs it.                               *)
(***************************************************************************)
EXTENDS Integers, Sequences, FiniteSets, TLC

VARIABLES line, delimiter, literal, char_pos, byte_pos, prev_char,
          ret, fields, raw, start, nones,
          expression, escaped, vals

vars == <<line, delimiter, literal, char_pos, byte_pos, prev_char,
          ret, fields, raw, start, nones, expression, escaped, vals>>

cursor == <<char_pos, byte_pos, prev_char>>

-----------------------------------------------------------------------------
(* Bounds of the model.                                                    *)

MaxLen == 5
MaxNone == 2
MaxVals == 2
MaxValLen == 3

-----------------------------------------------------------------------------
(* Characters and text.                                                    *)

Quote == "\""

Alphabet == {Quote, ",", "a", "è"}

Delimiters == {",", "è"}

NoChar == "None"

NoText == <<"unset">>

len_utf8(c) == IF c = "è" THEN 2 ELSE 1

RECURSIVE str_len(_)
str_len(s) == IF s = <<>> THEN 0 ELSE len_utf8(Head(s)) + str_len(Tail(s))

chars_count(s) == Len(s)

byte_offset(s, k) == str_len(SubSeq(s, 1, k))

is_char_boundary(s, b) == \E k \in 0..Len(s) : byte_offset(s, k) = b

char_index(s, b) == CHOOSE k \in 0..Len(s) : byte_offset(s, k) = b

(* &s[b1..b2]: faults unless b1 <= b2 and both are character boundaries of s *)
slice_ok(s, b1, b2) == b1 <= b2 /\ is_char_boundary(s, b1) /\ is_char_boundary(s, b2)

slice(s, b1, b2) == SubSeq(s, char_index(s, b1) + 1, char_index(s, b2))

ends_with(s, c) == s # <<>> /\ s[Len(s)] = c

starts_with(s, p) == Len(s) >= Len(p) /\ SubSeq(s, 1, Len(p)) = p

contains(s, p) == \E i \in 1..(Len(s) - Len(p) + 1) : SubSeq(s, i, i + Len(p) - 1) = p

contains_char(s, c) == \E i \in 1..Len(s) : s[i] = c

(* str::replace: non-overlapping matches, left to right *)
RECURSIVE replace(_, _, _)
replace(s, from, to) ==
    IF s = <<>> THEN <<>>
    ELSE IF starts_with(s, from)
         THEN to \o replace(SubSeq(s, Len(from) + 1, Len(s)), from, to)
         ELSE <<Head(s)>> \o replace(Tail(s), from, to)

RECURSIVE SeqsUpTo(_, _)
SeqsUpTo(S, n) ==
    IF n = 0 THEN {<<>>}
    ELSE LET shorter == SeqsUpTo(S, n - 1)
         IN shorter \cup {Append(s, c) : s \in shorter, c \in S}

Lines == SeqsUpTo(Alphabet, MaxLen)

-----------------------------------------------------------------------------
(* escape                                                                  *)

(* escape that overlooks the delimiter *)
needs_escape_quote_only(e, d) == contains(e, <<Quote>>)

needs_escape(e, d) == contains_char(e, d) \/ contains(e, <<Quote>>)

escape(e, d) ==
    IF needs_escape(e, d)
    THEN <<Quote>> \o replace(e, <<Quote>>, <<Quote, Quote>>) \o <<Quote>>
    ELSE e

-----------------------------------------------------------------------------
(* CsvRow::next                                                            *)

exhausted(l, bp) == bp > str_len(l) \/ str_len(l) = 0

(* a scan that stops at every delimiter *)
break_at_every_delimiter(quoted, pc) == TRUE

break_at_delimiter(quoted, pc) == ~quoted \/ (quoted /\ pc = Quote)

(* the for loop over line.char_indices().skip(char_pos); i is the 1-based  *)
(* index of the next character the iterator hands out                      *)
RECURSIVE scan(_, _, _, _, _, _)
scan(l, d, i, byte_length, quoted, pc) ==
    IF i > Len(l)
    THEN [byte_length |-> byte_length, quoted |-> quoted, prev_char |-> pc]
    ELSE LET c == l[i]
             q == quoted \/ (byte_length = 0 /\ c = Quote)
         IN IF c = d /\ break_at_delimiter(q, pc)
            THEN [byte_length |-> byte_length, quoted |-> q, prev_char |-> pc]
            ELSE scan(l, d, i + 1, byte_length + len_utf8(c), q, c)

field_slice_ok(l, bp, byte_length) ==
    byte_length = 0 \/ slice_ok(l, bp, bp + byte_length)

field_slice(l, bp, byte_length) ==
    IF byte_length = 0 THEN <<>> ELSE slice(l, bp, bp + byte_length)

(* a field taken as quoted on its opening quote alone *)
confirm_quoted_unchecked(quoted, result) == quoted

confirm_quoted(quoted, result) == quoted /\ ends_with(result, Quote)

advance_char(cp, result) == cp + chars_count(result) + 1

(* a cursor that counts every delimiter as one byte *)
advance_byte_one(bp, result, d) == bp + str_len(result) + 1

advance_byte(bp, result, d) == bp + str_len(result) + len_utf8(d)

trim_ok(result) == slice_ok(result, 1, str_len(result) - 1)

trim(result) == slice(result, 1, str_len(result) - 1)

unescape(result) ==
    IF contains(result, <<Quote, Quote>>)
    THEN replace(result, <<Quote, Quote>>, <<Quote>>)
    ELSE result

(* One call of next() from the cursor (cp, bp, pc): what it returns and    *)
(* the cursor it leaves.  kind is "None", "Some" or "Panic".               *)
call_next(l, d, lit, cp, bp, pc) ==
    IF exhausted(l, bp)
    THEN [kind |-> "None", fault |-> "no", value |-> <<>>, raw |-> <<>>,
          char_pos |-> cp, byte_pos |-> bp, prev_char |-> pc]
    ELSE LET s == scan(l, d, cp + 1, 0, FALSE, pc)
         IN IF ~field_slice_ok(l, bp, s.byte_length)
            THEN [kind |-> "Panic", fault |-> "field slice", value |-> <<>>, raw |-> <<>>,
                  char_pos |-> cp, byte_pos |-> bp, prev_char |-> s.prev_char]
            ELSE LET result == field_slice(l, bp, s.byte_length)
                     quoted == confirm_quoted(s.quoted, result)
                     ncp == advance_char(cp, result)
                     nbp == advance_byte(bp, result, d)
                 IN IF lit
                    THEN [kind |-> "Some", fault |-> "no", value |-> result, raw |-> result,
                          char_pos |-> ncp, byte_pos |-> nbp, prev_char |-> s.prev_char]
                    ELSE IF quoted /\ ~trim_ok(result)
                    THEN [kind |-> "Panic", fault |-> "trim slice", value |-> <<>>, raw |-> result,
                          char_pos |-> ncp, byte_pos |-> nbp, prev_char |-> s.prev_char]
                    ELSE [kind |-> "Some", fault |-> "no",
                          value |-> unescape(IF quoted THEN trim(result) ELSE result),
                          raw |-> result,
                          char_pos |-> ncp, byte_pos |-> nbp, prev_char |-> s.prev_char]

(* Iterator::collect on a fresh CsvRow::new(l, d, lit) *)
RECURSIVE collect_from(_, _, _, _, _, _, _)
collect_from(l, d, lit, cp, bp, pc, acc) ==
    LET r == call_next(l, d, lit, cp, bp, pc)
    IN IF r.kind = "Some"
       THEN collect_from(l, d, lit, r.char_pos, r.byte_pos, r.prev_char, Append(acc, r.value))
       ELSE [fields |-> acc, kind |-> r.kind]

collect(l, d, lit) == collect_from(l, d, lit, 0, 0, NoChar, <<>>)

-----------------------------------------------------------------------------
(* State machine: one CsvRow over one line.                                *)
(*   ret    what the last call of next() did: "new" (no call yet), "Some", *)
(*          "None" or "Panic"                                              *)
(*   fields the fields yielded so far                                      *)
(*   raw    the slice of the line captured by the last scan                *)
(*   start  char_pos when the last call began                              *)
(*   nones  number of calls that returned None                             *)

new(l, d, lit) ==
    /\ line = l
    /\ delimiter = d
    /\ literal = lit
    /\ byte_pos = 0
    /\ char_pos = 0
    /\ prev_char = NoChar
    /\ ret = "new"
    /\ fields = <<>>
    /\ raw = <<>>
    /\ start = 0
    /\ nones = 0

NoEscape ==
    /\ expression = NoText
    /\ escaped = NoText
    /\ vals = <<>>

Init ==
    /\ \E l \in Lines, d \in Delimiters, lit \in BOOLEAN : new(l, d, lit)
    /\ NoEscape

Constructed == line # NoText /\ ret # "Panic"

Step == call_next(line, delimiter, literal, char_pos, byte_pos, prev_char)

NextSome ==
    /\ Constructed
    /\ Step.kind = "Some"
    /\ char_pos' = Step.char_pos
    /\ byte_pos' = Step.byte_pos
    /\ prev_char' = Step.prev_char
    /\ ret' = "Some"
    /\ fields' = Append(fields, Step.value)
    /\ raw' = Step.raw
    /\ start' = char_pos
    /\ UNCHANGED <<line, delimiter, literal, nones, expression, escaped, vals>>

NextNone ==
    /\ Constructed
    /\ Step.kind = "None"
    /\ nones < MaxNone
    /\ char_pos' = Step.char_pos
    /\ byte_pos' = Step.byte_pos
    /\ prev_char' = Step.prev_char
    /\ ret' = "None"
    /\ nones' = nones + 1
    /\ UNCHANGED <<line, delimiter, literal, fields, raw, start, expression, escaped, vals>>

NextPanic ==
    /\ Constructed
    /\ Step.kind = "Panic"
    /\ char_pos' = Step.char_pos
    /\ byte_pos' = Step.byte_pos
    /\ prev_char' = Step.prev_char
    /\ ret' = "Panic"
    /\ raw' = Step.raw
    /\ start' = char_pos
    /\ UNCHANGED <<line, delimiter, literal, fields, nones, expression, escaped, vals>>

Next == NextSome \/ NextNone \/ NextPanic

Spec == Init /\ [][Next]_vars

-----------------------------------------------------------------------------
(* escape applied to one expression.                                       *)

InitEscape ==
    /\ line = NoText
    /\ delimiter \in Delimiters
    /\ literal = FALSE
    /\ byte_pos = 0
    /\ char_pos = 0
    /\ prev_char = NoChar
    /\ ret = "new"
    /\ fields = <<>>
    /\ raw = <<>>
    /\ start = 0
    /\ nones = 0
    /\ expression \in Lines
    /\ escaped = NoText
    /\ vals = <<>>

EscapeCall ==
    /\ expression # NoText
    /\ escaped = NoText
    /\ escaped' = escape(expression, delimiter)
    /\ UNCHANGED <<line, delimiter, literal, char_pos, byte_pos, prev_char,
                   ret, fields, raw, start, nones, expression, vals>>

NextEscape == EscapeCall

SpecEscape == InitEscape /\ [][NextEscape]_vars

-----------------------------------------------------------------------------
(* Round trip: a row is built from values with escape, joined by the       *)
(* delimiter, and tokenized in non-literal mode.                           *)

Values == SeqsUpTo(Alphabet, MaxValLen)

RECURSIVE join(_, _)
join(parts, d) ==
    IF parts = <<>> THEN <<>>
    ELSE IF Len(parts) = 1 THEN parts[1]
    ELSE parts[1] \o <<d>> \o join(Tail(parts), d)

escape_all(vs, d) == [i \in 1..Len(vs) |-> escape(vs[i], d)]

InitRoundTrip ==
    /\ line = NoText
    /\ delimiter \in Delimiters
    /\ literal = FALSE
    /\ byte_pos = 0
    /\ char_pos = 0
    /\ prev_char = NoChar
    /\ ret = "new"
    /\ fields = <<>>
    /\ raw = <<>>
    /\ start = 0
    /\ nones = 0
    /\ expression = NoText
    /\ escaped = NoText
    /\ vals \in SeqsUpTo(Values, MaxVals)

BuildRow ==
    /\ line = NoText
    /\ line' = join(escape_all(vals, delimiter), delimiter)
    /\ UNCHANGED <<delimiter, literal, char_pos, byte_pos, prev_char,
                   ret, fields, raw, start, nones, expression, escaped, vals>>

NextRoundTrip == BuildRow \/ NextSome \/ NextNone \/ NextPanic

SpecRoundTrip == InitRoundTrip /\ [][NextRoundTrip]_vars

-----------------------------------------------------------------------------
(* Notions used to state the properties.                                   *)

Last(s) == s[Len(s)]

count_char(s, c) == Cardinality({i \in 1..Len(s) : s[i] = c})

(* every quote character written twice, character by character *)
RECURSIVE double_each_quote(_)
double_each_quote(s) ==
    IF s = <<>> THEN <<>>
    ELSE (IF Head(s) = Quote THEN <<Quote, Quote>> ELSE <<Head(s)>>)
         \o double_each_quote(Tail(s))

(* every doubled quote read as one quote, pair by pair from the left *)
RECURSIVE collapse_pairs(_)
collapse_pairs(s) ==
    IF Len(s) >= 2 /\ s[1] = Quote /\ s[2] = Quote
    THEN <<Quote>> \o collapse_pairs(SubSeq(s, 3, Len(s)))
    ELSE IF s = <<>> THEN <<>>
    ELSE <<s[1]>> \o collapse_pairs(Tail(s))

(* U of the literal/non-literal equivalence *)
U(f) ==
    collapse_pairs(IF Len(f) > 1 /\ f[1] = Quote /\ f[Len(f)] = Quote
                   THEN SubSeq(f, 2, Len(f) - 1)
                   ELSE f)

(* index of the first delimiter after character index s, or Len(l) + 1 *)
next_delimiter(l, s, d) ==
    IF \E k \in (s + 1)..Len(l) : l[k] = d
    THEN CHOOSE k \in (s + 1)..Len(l) :
            l[k] = d /\ \A j \in (s + 1)..(k - 1) : l[j] # d
    ELSE Len(l) + 1

(* index of the first delimiter after index s that directly follows a      *)
(* quote, or Len(l) + 1                                                    *)
next_delimiter_after_quote(l, s, d) ==
    IF \E k \in (s + 1)..Len(l) : l[k] = d /\ l[k - 1] = Quote
    THEN CHOOSE k \in (s + 1)..Len(l) :
            /\ l[k] = d /\ l[k - 1] = Quote
            /\ \A j \in (s + 1)..(k - 1) : ~(l[j] = d /\ l[j - 1] = Quote)
    ELSE Len(l) + 1

(* in a text that starts with a quote: a later quote that is neither the   *)
(* last character nor the first of a doubled pair                          *)
RECURSIVE premature_close(_, _)
premature_close(t, i) ==
    IF i >= Len(t) THEN FALSE
    ELSE IF t[i] # Quote THEN premature_close(t, i + 1)
    ELSE IF t[i + 1] = Quote THEN premature_close(t, i + 2)
    ELSE TRUE

never_closed(t) ==
    \/ t # <<>> /\ t[1] = Quote /\ premature_close(t, 2)
    \/ t # <<>> /\ t[1] # Quote /\ contains_char(t, Quote)

Scanned == line # NoText /\ ret \in {"Some", "Panic"}

Yielded == line # NoText /\ ret = "Some"

Ended == line # NoText /\ ret \in {"None", "Panic"}

-----------------------------------------------------------------------------
(* C1: the tokenizer never faults: every call of next() returns a field or *)
(* None, whatever the line, the delimiter and the mode.                    *)
C1_NeverFaults ==
    line # NoText => ret # "Panic"

(* C2: round trip: tokenizing, in non-literal mode, the row built by       *)
(* joining escape(v_i, d) with d yields exactly the values v_1..v_n: the   *)
(* fields yielded so far are the first values, and the iteration ends with *)
(* None when all of them have been yielded.  Stated for the rows that are  *)
(* not empty (an empty row yields no field by the termination rule).       *)
C2_RoundTrip ==
    (line # NoText /\ line # <<>>) =>
        /\ Len(fields) <= Len(vals)
        /\ fields = SubSeq(vals, 1, Len(fields))
        /\ ret \in {"None", "Panic"} => ret = "None" /\ fields = vals

(* C3: field count: an empty line yields no field; a non-empty line with N *)
(* unquoted delimiters yields exactly N + 1 fields before None.  Stated on *)
(* the lines where N is beyond dispute: lines without any quote, where     *)
(* every delimiter is unquoted, and lines without any delimiter, where     *)
(* N = 0.  A trailing delimiter gives a final empty field and two adjacent *)
(* delimiters an empty field between them.                                 *)
C3_FieldCount ==
    /\ (line = <<>> /\ ret = "None") => fields = <<>>
    /\ (line # NoText /\ line # <<>>
        /\ (~contains_char(line, Quote) \/ ~contains_char(line, delimiter))) =>
          /\ ret # "Panic"
          /\ Len(fields) <= count_char(line, delimiter) + 1
          /\ ret = "None" => Len(fields) = count_char(line, delimiter) + 1
    /\ (Yielded /\ ~contains_char(line, Quote)) =>
          /\ (start = Len(line) /\ start > 0 /\ line[start] = delimiter) => Last(fields) = <<>>
          /\ (start < Len(line) /\ start > 0 /\ line[start] = delimiter
              /\ line[start + 1] = delimiter) => Last(fields) = <<>>

(* C4: lone-quote guard: when a field starts with a quote and the next     *)
(* character is the delimiter, that delimiter does not end the field, and  *)
(* the call that scans it completes.                                       *)
C4_LoneQuoteGuard ==
    (Scanned /\ start + 2 <= Len(line)
     /\ line[start + 1] = Quote /\ line[start + 2] = delimiter) =>
        ret = "Some" /\ Len(raw) > 1

(* C5: escape(value, d) is the value wrapped in one leading and one        *)
(* trailing quote with every quote of the value doubled when the value     *)
(* contains d or a quote, and exactly the value otherwise.                 *)
C5_Escape ==
    escaped # NoText =>
        IF \E i \in 1..Len(expression) : expression[i] \in {delimiter, Quote}
        THEN /\ escaped = <<Quote>> \o double_each_quote(expression) \o <<Quote>>
             /\ Len(escaped) = Len(expression) + count_char(expression, Quote) + 2
        ELSE escaped = expression

C5_Witness ==
    /\ escaped # NoText
    /\ contains_char(expression, Quote)
    /\ contains_char(expression, delimiter)
    /\ Len(escaped) > Len(expression) + 2

(* C6: exhaustion is reached and is permanent: every call returns a field  *)
(* or None, at most Len(line) + 1 fields are yielded, and once None has    *)
(* been returned the next call returns None again and leaves char_pos,     *)
(* byte_pos and prev_char as they are.                                     *)
C6_Exhaustion ==
    line # NoText =>
        /\ ret # "Panic"
        /\ Len(fields) <= Len(line) + 1
        /\ ret = "None" =>
              /\ Step.kind = "None"
              /\ <<Step.char_pos, Step.byte_pos, Step.prev_char>> = cursor
              /\ fields = collect(line, delimiter, literal).fields

(* C7: literal and non-literal modes agree up to unescaping: both yield    *)
(* the same number of fields, the k-th non-literal field is U of the k-th  *)
(* literal field, and a literal field is the raw slice of the line.        *)
C7_ModesAgree ==
    /\ (Ended /\ ~literal) =>
          LET lit == collect(line, delimiter, TRUE)
          IN /\ ret = "None"
             /\ lit.kind = "None"
             /\ Len(fields) = Len(lit.fields)
             /\ \A k \in 1..Len(fields) : fields[k] = U(lit.fields[k])
    /\ (Yielded /\ literal) =>
          /\ Last(fields) = raw
          /\ raw = SubSeq(line, start + 1, start + Len(raw))

(* C8 as stated: in non-literal mode a field whose quote is never          *)
(* legitimately closed is yielded as the raw text up to the next           *)
(* delimiter, with no quote stripped and no doubled quote collapsed.       *)
C8_Original ==
    (Yielded /\ ~literal) =>
        LET t == SubSeq(line, start + 1, next_delimiter(line, start, delimiter) - 1)
        IN never_closed(t) => Last(fields) = t

(* C8 as amended: in non-literal mode a field whose raw slice contains a   *)
(* quote but does not both start and end with a quote has no quote         *)
(* stripped; it is the raw slice with every doubled quote collapsed, and   *)
(* the raw slice runs to the delimiter that ended the scan (for a field    *)
(* that starts with a quote, the first delimiter directly after a quote)   *)
(* or to the end of the line.                                              *)
C8_Unclosed ==
    (Yielded /\ ~literal /\ contains_char(raw, Quote)
     /\ ~(raw[1] = Quote /\ raw[Len(raw)] = Quote)) =>
        /\ Last(fields) = collapse_pairs(raw)
        /\ raw = SubSeq(line, start + 1, start + Len(raw))
        /\ start + Len(raw) + 1 =
              IF raw[1] = Quote
              THEN next_delimiter_after_quote(line, start + 1, delimiter)
              ELSE next_delimiter(line, start, delimiter)

C8_Witness ==
    /\ Yielded /\ ~literal
    /\ Len(raw) >= 3 /\ raw[1] = Quote /\ raw[Len(raw)] # Quote
    /\ contains(raw, <<Quote, Quote>>)
    /\ contains_char(raw, delimiter)
    /\ Last(fields) # raw

(* C9: in a field whose first character is a quote, a delimiter whose      *)
(* preceding character is not a quote never ends the field: the field      *)
(* runs to the first delimiter that directly follows a quote, or to the    *)
(* end of the line.                                                        *)
C9_QuotedDelimiters ==
    (Yielded /\ start < Len(line) /\ line[start + 1] = Quote) =>
        LET e == start + Len(raw)
        IN /\ raw = SubSeq(line, start + 1, e)
           /\ e < Len(line) => line[e + 1] = delimiter /\ line[e] = Quote
           /\ e + 1 = next_delimiter_after_quote(line, start + 1, delimiter)

C9_Witness ==
    /\ Yielded
    /\ Len(raw) >= 4 /\ raw[1] = Quote /\ raw[Len(raw)] = Quote
    /\ contains_char(raw, delimiter)
    /\ start + Len(raw) < Len(line)

(* C10: cursor consistency: whenever a field is about to be scanned,       *)
(* byte_pos is the byte offset of the character at index char_pos; the     *)
(* call advances both by the same stretch of the line; and the slice it    *)
(* takes from the line lies on character boundaries within the line.       *)
C10_CursorConsistency ==
    (line # NoText /\ ~exhausted(line, byte_pos)) =>
        /\ char_pos <= Len(line)
        /\ byte_pos = byte_offset(line, char_pos)
        /\ Step.fault # "field slice"
        /\ Step.char_pos > char_pos
        /\ Step.byte_pos > byte_pos
        /\ Step.raw = SubSeq(line, char_pos + 1, char_pos + Len(Step.raw))
        /\ Step.char_pos = char_pos + Len(Step.raw) + 1
        /\ Step.byte_pos = byte_pos + str_len(Step.raw) + len_utf8(delimiter)
        /\ Step.char_pos <= Len(line) =>
              /\ line[Step.char_pos] = delimiter
              /\ Step.byte_pos = byte_offset(line, Step.char_pos)

C10_Witness ==
    /\ Yielded
    /\ delimiter = "è"
    /\ Len(fields) >= 2
    /\ ~exhausted(line, byte_pos)
    /\ byte_pos > char_pos + 1

====
